---------------------------- MODULE Spec2Model ----------------------------
(***************************************************************************)
(* Model of scripts/py/Optimize-Disc.py: the disc finder                   *)
(* search_path_for_discs, the archive extractor extract_archive and the    *)
(* command-line part of the script, run against a small file system.       *)
(*                                                                         *)
(* Python strings are TLA+ strings; str.endswith and os.path.join are      *)
(* computed character by character.  The file system maps absolute path    *)
(* strings to nodes; a directory keeps its listing in the order scandir    *)
(* returns it, an archive file keeps its container format and the member   *)
(* names of its listing.                                                   *)
(***************************************************************************)
EXTENDS Naturals, Sequences, FiniteSets, TLC

VARIABLES
    fs,            \* the file system: absolute path -> node
    sys_argv,      \* sys.argv, the script name first
    pc,            \* control location
    calln,         \* which of the script's four scans is running (0: none)
    path,          \* parameter of the running search_path_for_discs call
    found_discs,   \* its local list
    stack,         \* os.walk: directories still to visit
    root,          \* os.walk: the directory being visited
    files,         \* os.walk: files of root the inner loop has not visited
    handles,       \* archive handles currently open (by archive path)
    opens,         \* number of archives opened so far (history)
    archive,       \* extract_archive's variable `archive`
    out,           \* lines printed on standard output
    raised,        \* the exception in flight or propagated, "none" if none
    results,       \* what each finished scan returned (history)
    fsChanges      \* changes other programs made to the file system

vars == <<fs, sys_argv, pc, calln, path, found_discs, stack, root, files,
          handles, opens, archive, out, raised, results, fsChanges>>

---------------------------------------------------------------------------
(* Bounds of the model. *)

\* nodes (files and directories) a directory-tree world holds below cwd
MaxNodes == 3
\* members of an archive's listing
MaxListing == 3
\* file-system changes by other programs during one run of the script
MaxFsChanges == 1
\* nodes below cwd at the start of a run that other programs interfere with
MaxEnvNodes == 1

---------------------------------------------------------------------------
(* Strings and paths. *)

supported_archives == <<".7z", ".gz", ".rar", ".zip">>

supported_discs == <<".iso", ".bin", ".cue", ".gdi", ".raw", ".chd">>

\* str.startswith(prefix)
startswith(s, prefix) ==
    Len(s) >= Len(prefix) /\ SubSeq(s, 1, Len(prefix)) = prefix

\* str.endswith(suffixes) with a tuple of suffixes
endswith(s, suffixes) ==
    \E i \in DOMAIN suffixes :
        /\ Len(s) >= Len(suffixes[i])
        /\ SubSeq(s, Len(s) - Len(suffixes[i]) + 1, Len(s)) = suffixes[i]

\* os.path.join(a, b) (posixpath)
join(a, b) ==
    IF startswith(b, "/") THEN b
    ELSE IF a = "" \/ endswith(a, <<"/">>) THEN a \o b
    ELSE a \o "/" \o b

\* os.getcwd()
getcwd == "/w"

\* the absolute path the operating system resolves p to
abspath(p) == IF startswith(p, "/") THEN p ELSE join(getcwd, p)

---------------------------------------------------------------------------
(* File-system nodes. *)

DirNode(entries) ==
    [kind |-> "dir", entries |-> entries, fmt |-> "none", names |-> <<>>]

\* fmt: "7z", "zip" (any container py7zr does not read) or "data" (no archive)
FileNode(fmt, names) ==
    [kind |-> "file", entries |-> <<>>, fmt |-> fmt, names |-> names]

Range(s) == {s[i] : i \in DOMAIN s}

exists(f, p) == abspath(p) \in DOMAIN f

\* os.path.isdir(p)
isdir(f, p) == exists(f, p) /\ f[abspath(p)].kind = "dir"

\* os.path.isfile(p)
isfile(f, p) == exists(f, p) /\ f[abspath(p)].kind = "file"

\* the file system with node `node` named n added to (or replaced in) directory d
PutNode(f, d, n, node) ==
    LET p == join(d, n) IN
    [q \in DOMAIN f \cup {p} |->
        IF q = p THEN node
        ELSE IF q = d /\ n \notin Range(f[d].entries)
             THEN [f[d] EXCEPT !.entries = Append(@, n)]
        ELSE f[q]]

RECURSIVE Without(_, _)
Without(s, x) ==
    IF s = <<>> THEN <<>>
    ELSE IF Head(s) = x THEN Without(Tail(s), x)
    ELSE <<Head(s)>> \o Without(Tail(s), x)

\* the file system with the leaf n of directory d removed
RemoveNode(f, d, n) ==
    [q \in DOMAIN f \ {join(d, n)} |->
        IF q = d THEN [f[d] EXCEPT !.entries = Without(@, n)] ELSE f[q]]

---------------------------------------------------------------------------
(* The worlds and arguments a run starts from. *)

\* names of files and directories in a directory tree, in the order in
\* which a directory of a tree world lists them
NameOrder == <<"dump.zip", "GAME.ISO", "game.iso", "game.iso.txt">>

Names == {NameOrder[i] : i \in DOMAIN NameOrder}

\* member names of an archive's listing
EntryNames == {"game.iso", "readme.txt", "track.bin", "GAME.ISO"}

\* names of the archive files of the archive worlds
ArchiveFileNames == {"a.zip", "c.7z"}

ScriptName == "Optimize-Disc.py"

EmptyFs == [q \in {getcwd} |-> DirNode(<<>>)]

DirsOf(f) == {q \in DOMAIN f : f[q].kind = "dir"}

\* the names that come after every entry of listing l in NameOrder
NamesAfter(l) ==
    {NameOrder[i] : i \in {j \in DOMAIN NameOrder :
                              \A k \in DOMAIN NameOrder :
                                  NameOrder[k] \in Range(l) => k < j}}

\* every way to add one plain file or one empty directory to f at the end
\* of a listing
GrowOnce(f) ==
    UNION {{PutNode(f, d, n, node) :
                n \in NamesAfter(f[d].entries),
                node \in {DirNode(<<>>), FileNode("data", <<>>)}} :
           d \in DirsOf(f)}

\* the directory trees of at most k nodes below cwd; every directory lists
\* its entries in the order of NameOrder
TreeWorlds[k \in 0..MaxNodes] ==
    IF k = 0 THEN {EmptyFs}
    ELSE TreeWorlds[k - 1] \cup UNION {GrowOnce(f) : f \in TreeWorlds[k - 1]}

Listings == UNION {[1..k -> EntryNames] : k \in 0..MaxListing}

\* cwd holding one archive file: a 7z container, or a container of another
\* format (zip, gzip, rar), under either name, with any listing
ArchiveWorlds ==
    {PutNode(EmptyFs, getcwd, n, FileNode(fm, l)) :
        n \in ArchiveFileNames, fm \in {"7z", "zip"}, l \in Listings}

\* sys.argv of the runs over a directory tree and over an archive world
TreeArgvs ==
    {<<ScriptName>>, <<ScriptName, "dump.zip">>, <<ScriptName, "game.iso">>}

ArchiveArgvs ==
    {<<ScriptName>>, <<ScriptName, "a.zip">>, <<ScriptName, "c.7z">>,
     <<ScriptName, "c.7z", "a.zip">>}

ScriptStarts(trees) ==
    (trees \X TreeArgvs) \cup (ArchiveWorlds \X ArchiveArgvs)

\* extract_archive's callers: the file system and the argument
ExtractStarts ==
    (ArchiveWorlds \cup {EmptyFs}) \X ArchiveFileNames

---------------------------------------------------------------------------
(* The library calls of the program. *)

\* py7zr.SevenZipFile(p, mode='r') returns a handle: p is a regular file
\* holding a 7z container (py7zr reads no other container format)
SevenZipFile_opens(f, p) == isfile(f, p) /\ f[abspath(p)].fmt = "7z"

\* the exception py7zr.SevenZipFile(p, mode='r') raises otherwise
SevenZipFile_error(f, p) ==
    IF ~exists(f, p) THEN "FileNotFoundError"
    ELSE IF isdir(f, p) THEN "IsADirectoryError"
    ELSE "Bad7zFile"

\* archive.getnames()
getnames(f, p) == f[abspath(p)].names

\* os.walk: the files of directory top, in listing order
walk_files(f, top) ==
    SelectSeq(f[abspath(top)].entries, LAMBDA n : isfile(f, join(top, n)))

\* a walk that does not descend (os.listdir in place of os.walk)
walk_dirs_none(f, top) == <<>>

\* os.walk: the directories os.walk descends into from top, in listing order
walk_dirs(f, top) ==
    LET dirs == SelectSeq(f[abspath(top)].entries,
                          LAMBDA n : isdir(f, join(top, n)))
    IN  [i \in 1..Len(dirs) |-> join(top, dirs[i])]

\* a test for the suffix anywhere in the name (`in` in place of endswith)
is_disc_file_anywhere(file) ==
    \E i \in DOMAIN supported_discs, k \in 1..Len(file) :
        /\ k + Len(supported_discs[i]) - 1 <= Len(file)
        /\ SubSeq(file, k, k + Len(supported_discs[i]) - 1) = supported_discs[i]

\* line 26: file.endswith((supported_discs))
is_disc_file(file) == endswith(file, supported_discs)

\* [entry for entry in names if entry.endswith(supported_discs)]
disc_entries(names) ==
    SelectSeq(names, LAMBDA entry : endswith(entry, supported_discs))

RECURSIVE extracted(_, _, _)
\* archive.extractall(): the first k members written into cwd
extracted(f, names, k) ==
    IF k = 0 THEN f
    ELSE PutNode(extracted(f, names, k - 1), getcwd, names[k],
                 FileNode("data", <<>>))

\* a close that only the normal path reaches (open and close without `with`)
exit_with_normal_only(open, h, exc) == IF exc THEN open ELSE open \ {h}

\* leaving a `with` block calls the handle's close, with or without an
\* exception in flight
exit_with(open, h, exc) == open \ {h}

\* the archive suffix tested before the kind of the path
classify_suffix_first(f, p) ==
    IF exists(f, p) /\ endswith(p, supported_archives) THEN "archive"
    ELSE IF isdir(f, p) THEN "dir"
    ELSE "none"

\* every regular file taken for an archive (the suffix test left out)
classify_any_file(f, p) ==
    IF isdir(f, p) THEN "dir"
    ELSE IF isfile(f, p) THEN "archive"
    ELSE "none"

\* which branch of search_path_for_discs a path takes
classify(f, p) ==
    IF isdir(f, p) THEN "dir"
    ELSE IF isfile(f, p) /\ endswith(p, supported_archives) THEN "archive"
    ELSE "none"

\* the current directory scanned whatever the arguments
scan_target_cwd(argv) == getcwd

\* the path the script scans, and how its summary line names it
scan_target(argv) == IF Len(argv) = 1 THEN getcwd ELSE argv[2]

scan_description(argv) ==
    IF Len(argv) = 1 THEN "current directory" ELSE argv[2]

none_found_line(desc) == "No supported disc files found in " \o desc

found_line(n, desc) ==
    "Found " \o ToString(n) \o " supported disc files in " \o desc

---------------------------------------------------------------------------
(* Initial states. *)

Str(s) == [type |-> "str", val |-> s]

Handle(p) == [type |-> "SevenZipFile", val |-> p]

Locals ==
    /\ calln = 0
    /\ path = ""
    /\ found_discs = <<>>
    /\ stack = <<>>
    /\ root = ""
    /\ files = <<>>
    /\ handles = {}
    /\ opens = 0
    /\ out = <<>>
    /\ raised = "none"
    /\ results = <<>>
    /\ fsChanges = 0

\* the script is started
InitScript(trees) ==
    /\ \E s \in ScriptStarts(trees) : fs = s[1] /\ sys_argv = s[2]
    /\ pc = "main"
    /\ archive = Str("")
    /\ Locals

\* a caller calls extract_archive(a)
InitExtract ==
    /\ \E s \in ExtractStarts : fs = s[1] /\ archive = Str(s[2])
    /\ sys_argv = <<ScriptName>>
    /\ pc = "x_open"
    /\ Locals

Init == InitScript(TreeWorlds[MaxNodes]) \/ InitExtract

InitEnv == InitScript(TreeWorlds[MaxEnvNodes])

---------------------------------------------------------------------------
(* search_path_for_discs(path), lines 17-35. *)

\* the call: line 18, found_discs = []
search_path_for_discs(n) ==
    /\ calln' = n
    /\ path' = scan_target(sys_argv)
    /\ found_discs' = <<>>
    /\ stack' = <<>>
    /\ root' = ""
    /\ files' = <<>>
    /\ pc' = "classify"

\* lines 23, 29, 31: the branch the path takes
ClassifyPath ==
    /\ pc = "classify"
    /\ pc' = CASE classify(fs, path) = "dir" -> "walk"
               [] classify(fs, path) = "archive" -> "open"
               [] OTHER -> "return"
    /\ stack' = IF classify(fs, path) = "dir" THEN <<path>> ELSE <<>>
    /\ UNCHANGED <<fs, sys_argv, calln, path, found_discs, root, files,
                   handles, opens, archive, out, raised, results, fsChanges>>

\* line 24: os.walk yields the next directory
WalkDir ==
    /\ pc = "walk"
    /\ files = <<>>
    /\ stack # <<>>
    /\ root' = Head(stack)
    /\ files' = walk_files(fs, Head(stack))
    /\ stack' = walk_dirs(fs, Head(stack)) \o Tail(stack)
    /\ UNCHANGED <<fs, sys_argv, pc, calln, path, found_discs, handles, opens,
                   archive, out, raised, results, fsChanges>>

\* lines 25-27: one file of the directory
VisitFile ==
    /\ pc = "walk"
    /\ files # <<>>
    /\ found_discs' =
           IF is_disc_file(Head(files))
           THEN Append(found_discs, join(root, Head(files)))
           ELSE found_discs
    /\ files' = Tail(files)
    /\ UNCHANGED <<fs, sys_argv, pc, calln, path, stack, root, handles, opens,
                   archive, out, raised, results, fsChanges>>

\* line 24: os.walk is exhausted
WalkDone ==
    /\ pc = "walk"
    /\ files = <<>>
    /\ stack = <<>>
    /\ pc' = "return"
    /\ UNCHANGED <<fs, sys_argv, calln, path, found_discs, stack, root, files,
                   handles, opens, archive, out, raised, results, fsChanges>>

\* line 32: with py7zr.SevenZipFile(path, mode='r') as archive; an exception
\* is caught nowhere and ends the script
OpenArchive ==
    /\ pc = "open"
    /\ opens' = opens + 1
    /\ IF SevenZipFile_opens(fs, path)
       THEN /\ handles' = handles \cup {path}
            /\ pc' = "list"
            /\ raised' = raised
       ELSE /\ handles' = handles
            /\ pc' = "crashed"
            /\ raised' = SevenZipFile_error(fs, path)
    /\ UNCHANGED <<fs, sys_argv, calln, path, found_discs, stack, root, files,
                   archive, out, results, fsChanges>>

\* a listing step that also unpacks the archive, as line 13 does
ListArchiveExtracting ==
    /\ pc = "list"
    /\ found_discs' = found_discs \o disc_entries(getnames(fs, path))
    /\ fs' = extracted(fs, getnames(fs, path), Len(getnames(fs, path)))
    /\ pc' = "exit_with"
    /\ UNCHANGED <<sys_argv, calln, path, stack, root, files, handles,
                   opens, archive, out, raised, results, fsChanges>>

\* line 33: found_discs.extend(...) over archive.getnames()
ListArchive ==
    /\ pc = "list"
    /\ found_discs' = found_discs \o disc_entries(getnames(fs, path))
    /\ pc' = "exit_with"
    /\ UNCHANGED <<fs, sys_argv, calln, path, stack, root, files, handles,
                   opens, archive, out, raised, results, fsChanges>>

\* line 32: the with block is left
ExitWith ==
    /\ pc = "exit_with"
    /\ handles' = exit_with(handles, path, FALSE)
    /\ pc' = "return"
    /\ UNCHANGED <<fs, sys_argv, calln, path, found_discs, stack, root, files,
                   opens, archive, out, raised, results, fsChanges>>

\* line 35: return found_discs
Return ==
    /\ pc = "return"
    /\ results' = Append(results, [path |-> path, value |-> found_discs])
    /\ pc' = "resume"
    /\ UNCHANGED <<fs, sys_argv, calln, path, found_discs, stack, root, files,
                   handles, opens, archive, out, raised, fsChanges>>

---------------------------------------------------------------------------
(* The script, lines 37-49.  Both branches of line 38 run the same four   *)
(* statements, on os.getcwd() or on sys.argv[1].                          *)

\* the value the scan that just finished returned
returned == results[Len(results)].value

\* the script ends without scanning again
finish ==
    /\ pc' = "done"
    /\ UNCHANGED <<calln, path, found_discs, stack, root, files>>

\* lines 38, 39 and 45: the first scan, whose result is dropped
Main ==
    /\ pc = "main"
    /\ search_path_for_discs(1)
    /\ UNCHANGED <<fs, sys_argv, handles, opens, archive, out, raised,
                   results, fsChanges>>

\* lines 40 and 46: if len(search_path_for_discs(...)) == 0, the call
Line40Call ==
    /\ pc = "resume"
    /\ calln = 1
    /\ search_path_for_discs(2)
    /\ UNCHANGED <<fs, sys_argv, handles, opens, archive, out, raised,
                   results, fsChanges>>

\* lines 40-42 and 46-48: the test of the second scan; print, or scan again
Line40Test ==
    /\ pc = "resume"
    /\ calln = 2
    /\ IF Len(returned) = 0
       THEN /\ out' = Append(out, none_found_line(scan_description(sys_argv)))
            /\ finish
       ELSE /\ out' = out
            /\ search_path_for_discs(3)
    /\ UNCHANGED <<fs, sys_argv, handles, opens, archive, raised, results,
                   fsChanges>>

\* lines 42-43 and 48-49: the test of the third scan; scan again, or fall
\* off the end of the if statement
Line42Test ==
    /\ pc = "resume"
    /\ calln = 3
    /\ IF Len(returned) > 0
       THEN search_path_for_discs(4)
       ELSE finish
    /\ UNCHANGED <<fs, sys_argv, handles, opens, archive, out, raised,
                   results, fsChanges>>

\* lines 43 and 49: print the length of the fourth scan
Line43Print ==
    /\ pc = "resume"
    /\ calln = 4
    /\ out' = Append(out, found_line(Len(returned),
                                     scan_description(sys_argv)))
    /\ finish
    /\ UNCHANGED <<fs, sys_argv, handles, opens, archive, raised, results,
                   fsChanges>>

---------------------------------------------------------------------------
(* extract_archive(archive), lines 10-15. *)

\* line 12: with py7zr.SevenZipFile(archive, mode='r') as archive; on
\* success the name `archive` is rebound to the handle
ExtractOpen ==
    /\ pc = "x_open"
    /\ opens' = opens + 1
    /\ IF SevenZipFile_opens(fs, archive.val)
       THEN /\ handles' = handles \cup {archive.val}
            /\ archive' = Handle(archive.val)
            /\ pc' = "x_extractall"
            /\ raised' = raised
       ELSE /\ handles' = handles
            /\ archive' = archive
            /\ pc' = "x_except"
            /\ raised' = SevenZipFile_error(fs, archive.val)
    /\ UNCHANGED <<fs, sys_argv, calln, path, found_discs, stack, root, files,
                   out, results, fsChanges>>

\* line 13: archive.extractall(); it writes the members into cwd and may
\* fail (disk full, permissions, a damaged member) after any number of them
ExtractAll ==
    /\ pc = "x_extractall"
    /\ \E k \in 0..Len(getnames(fs, archive.val)), ok \in BOOLEAN :
          /\ ok => k = Len(getnames(fs, archive.val))
          /\ fs' = extracted(fs, getnames(fs, archive.val), k)
          /\ raised' = IF ok THEN raised ELSE "OSError"
    /\ pc' = "x_exit_with"
    /\ UNCHANGED <<sys_argv, calln, path, found_discs, stack, root, files,
                   handles, opens, archive, out, results, fsChanges>>

\* line 12: the with block is left, normally or by the exception
ExtractExitWith ==
    /\ pc = "x_exit_with"
    /\ handles' = exit_with(handles, archive.val, raised # "none")
    /\ pc' = IF raised # "none" THEN "x_except" ELSE "x_done"
    /\ UNCHANGED <<fs, sys_argv, calln, path, found_discs, stack, root, files,
                   opens, archive, out, raised, results, fsChanges>>

\* lines 14-15: except: print("Error extracting " + archive); str + handle
\* raises TypeError, which leaves extract_archive
ExtractExcept ==
    /\ pc = "x_except"
    /\ IF archive.type = "str"
       THEN /\ out' = Append(out, "Error extracting " \o archive.val)
            /\ raised' = "none"
            /\ pc' = "x_done"
       ELSE /\ out' = out
            /\ raised' = "TypeError"
            /\ pc' = "x_raised"
    /\ UNCHANGED <<fs, sys_argv, calln, path, found_discs, stack, root, files,
                   handles, opens, archive, results, fsChanges>>

---------------------------------------------------------------------------
(* Other programs change the file system between two scans of the script. *)

FsChange ==
    /\ pc = "resume"
    /\ fsChanges < MaxFsChanges
    /\ fsChanges' = fsChanges + 1
    /\ \E d \in DirsOf(fs), n \in Names :
          \/ /\ n \notin Range(fs[d].entries)
             /\ \E node \in {DirNode(<<>>), FileNode("data", <<>>)} :
                   fs' = PutNode(fs, d, n, node)
          \/ /\ n \in Range(fs[d].entries)
             /\ fs[join(d, n)].entries = <<>>
             /\ fs' = RemoveNode(fs, d, n)
    /\ UNCHANGED <<sys_argv, pc, calln, path, found_discs, stack, root, files,
                   handles, opens, archive, out, raised, results>>

---------------------------------------------------------------------------
(* Specifications. *)

Search ==
    \/ ClassifyPath
    \/ WalkDir
    \/ VisitFile
    \/ WalkDone
    \/ OpenArchive
    \/ ListArchive
    \/ ExitWith
    \/ Return

Script ==
    \/ Main
    \/ Line40Call
    \/ Line40Test
    \/ Line42Test
    \/ Line43Print

Extract ==
    \/ ExtractOpen
    \/ ExtractAll
    \/ ExtractExitWith
    \/ ExtractExcept

Next == Script \/ Search \/ Extract

\* the program alone
Spec == Init /\ [][Next]_vars

NextEnv == Script \/ Search \/ FsChange

\* the script while other programs change the file system
SpecEnv == InitEnv /\ [][NextEnv]_vars

---------------------------------------------------------------------------
(* What the properties are stated with.  None of it is used by the model   *)
(* of the program above.                                                   *)

DiscSuffixes == {".iso", ".bin", ".cue", ".gdi", ".raw", ".chd"}

ArchiveSuffixes == {".7z", ".gz", ".rar", ".zip"}

\* t is a suffix of s: s is some string followed by t
HasSuffix(s, t) == \E k \in 0..Len(s) : s = SubSeq(s, 1, k) \o t

IsDiscName(s) == \E t \in DiscSuffixes : HasSuffix(s, t)

IsArchiveName(s) == \E t \in ArchiveSuffixes : HasSuffix(s, t)

\* where the operating system finds p
Located(p) == IF SubSeq(p, 1, 1) = "/" THEN p ELSE "/w/" \o p

IsDirectory(p) == Located(p) \in DOMAIN fs /\ fs[Located(p)].kind = "dir"

IsRegularFile(p) == Located(p) \in DOMAIN fs /\ fs[Located(p)].kind = "file"

\* the directories at and beneath directory D
DirsBeneath(D) ==
    {d \in DOMAIN fs :
        /\ fs[d].kind = "dir"
        /\ \/ d = Located(D)
           \/ \E k \in 1..Len(d) : SubSeq(d, 1, k) = Located(D) \o "/"}

\* the disc files directory d holds, named as the scan of D names them: D,
\* the directories below D that lead to d, and the file name
DiscFilesIn(D, d) ==
    {D \o SubSeq(d, Len(Located(D)) + 1, Len(d)) \o "/" \o fs[d].entries[i] :
        i \in {j \in DOMAIN fs[d].entries :
                  /\ fs[d \o "/" \o fs[d].entries[j]].kind = "file"
                  /\ IsDiscName(fs[d].entries[j])}}

\* the disc files beneath directory D
DiscFilesBeneath(D) == UNION {DiscFilesIn(D, d) : d \in DirsBeneath(D)}

NoDuplicates(s) == \A i, j \in DOMAIN s : s[i] = s[j] => i = j

\* the path the script is to scan
Target == IF Len(sys_argv) = 1 THEN "/w" ELSE sys_argv[2]

\* the script is running (not a call of extract_archive)
ScriptRun == pc \notin {"x_open", "x_extractall", "x_exit_with", "x_except",
                        "x_done", "x_raised"}

SearchPcs == {"classify", "walk", "open", "list", "exit_with", "return"}

---------------------------------------------------------------------------
(* C1 *)

\* C1: a scan of an existing directory returns exactly the files beneath it,
\* at any depth, whose name ends with a disc suffix, each as directory
\* joined with file name; no other file and no directory.
C1_DirectoryScanExact ==
    \A i \in DOMAIN results :
        IsDirectory(results[i].path) =>
            Range(results[i].value) = DiscFilesBeneath(results[i].path)

\* a scan of cwd returned a nested disc file and left out the sibling file
\* without a disc suffix
C1_Witness ==
    /\ results # <<>>
    /\ results[1].path = "/w"
    /\ results[1].value = <<"/w/dump.zip/game.iso">>
    /\ IsRegularFile("/w/game.iso.txt")

---------------------------------------------------------------------------
(* C2 *)

\* C2: whatever fails in extract_archive, while opening or while
\* extracting, the call returns normally (no exception leaves it) having
\* printed a message that names the archive path.
C2_FailureContained ==
    /\ pc # "x_raised"
    /\ pc = "x_done" =>
          /\ raised = "none"
          /\ out \in {<<>>, <<"Error extracting " \o archive.val>>}

---------------------------------------------------------------------------
(* C3 *)

\* the members of a listing with a disc suffix, in listing order
DiscMembers(names) == SelectSeq(names, LAMBDA e : IsDiscName(e))

\* C3: a scan of an existing regular file with an archive suffix that holds
\* an archive returns the archive's member names with a disc suffix, in
\* listing order, and nothing else.
C3_ArchiveListing ==
    (/\ ScriptRun
     /\ IsRegularFile(Target)
     /\ IsArchiveName(Target)
     /\ fs[Located(Target)].fmt \in {"7z", "zip"})
    => /\ raised = "none"
       /\ \A i \in DOMAIN results :
             results[i].value = DiscMembers(fs[Located(Target)].names)

---------------------------------------------------------------------------
(* C4 *)

\* C4: a scan of a path that does not exist, or of a regular file without
\* an archive suffix, opens no archive, raises nothing and returns the
\* empty sequence.
C4_NothingToScan ==
    (/\ ScriptRun
     /\ \/ Located(Target) \notin DOMAIN fs
        \/ IsRegularFile(Target) /\ ~IsArchiveName(Target))
    => /\ opens = 0
       /\ raised = "none"
       /\ pc \notin {"open", "list", "exit_with", "crashed"}
       /\ found_discs = <<>>
       /\ \A i \in DOMAIN results : results[i].value = <<>>

\* the script scanned the disc image game.iso itself and ended
C4_Witness ==
    /\ Target = "game.iso"
    /\ IsRegularFile("game.iso")
    /\ pc = "done"
    /\ Len(results) = 2
    /\ results[2].value = <<>>

---------------------------------------------------------------------------
(* C5 *)

\* C5: every run of the script ends having printed exactly one summary
\* line, also when the file system changes between two scans and when
\* opening an archive fails.
C5_OneSummaryLine == pc \in {"done", "crashed"} => Len(out) = 1

\* C5, the runs in which no scan fails: the script ends having printed
\* exactly one summary line.
C5_OneSummaryLineUnlessFailure == pc = "done" => Len(out) = 1

---------------------------------------------------------------------------
(* C6 *)

\* how the summary line names the scanned path
TargetDescription ==
    IF Len(sys_argv) = 1 THEN "current directory" ELSE sys_argv[2]

\* C6: every scan is of cwd when there is no argument and of the first
\* argument otherwise, and the line the script prints is the "No supported
\* disc files" line when the scan returns no disc and the "Found N" line,
\* N the length of what the scan returns, otherwise.
C6_SummaryLine ==
    pc = "done" =>
        /\ \A i \in DOMAIN results : results[i].path = Target
        /\ out = << IF Len(results[1].value) = 0
                    THEN "No supported disc files found in "
                             \o TargetDescription
                    ELSE "Found " \o ToString(Len(results[1].value))
                             \o " supported disc files in "
                             \o TargetDescription >>

\* the script found a disc beneath the directory given as argument
C6_Witness ==
    /\ pc = "done"
    /\ out = <<"Found 1 supported disc files in dump.zip">>

---------------------------------------------------------------------------
(* C7 *)

\* C7: at every step of a scan, in either branch, every string in
\* found_discs (and in what a scan returned) ends with a disc suffix,
\* compared case-sensitively.
C7_OnlyDiscSuffixes ==
    /\ \A i \in DOMAIN found_discs : IsDiscName(found_discs[i])
    /\ \A i \in DOMAIN results :
          \A j \in DOMAIN results[i].value : IsDiscName(results[i].value[j])

\* a walk of cwd kept game.iso and passed over GAME.ISO and game.iso.txt
C7_Witness ==
    /\ pc = "return"
    /\ found_discs = <<"/w/game.iso">>
    /\ IsRegularFile("/w/GAME.ISO")
    /\ IsRegularFile("/w/game.iso.txt")

---------------------------------------------------------------------------
(* C8 *)

\* C8: an archive handle is open only inside the with block that opened
\* it: it is closed when a scan returns or fails, when extract_archive's
\* except clause runs, and when extract_archive ends.
C8_HandlesClosed ==
    handles # {} => pc \in {"list", "exit_with", "x_extractall", "x_exit_with"}

\* extraction failed and the except clause runs with the handle closed
C8_Witness ==
    /\ pc = "x_except"
    /\ archive.type = "SevenZipFile"
    /\ raised = "OSError"
    /\ handles = {}

---------------------------------------------------------------------------
(* C9 *)

\* C9: no step of a scan changes the file system, and the scans of one
\* run, all of the same path, return the same set.
C9_ReadOnly ==
    /\ [][(pc \in SearchPcs) => (fs' = fs)]_vars
    /\ [](\A i, j \in DOMAIN results :
             Range(results[i].value) = Range(results[j].value))

\* four scans of an archive, each returning two of its members
C9_Witness ==
    /\ Len(results) = 4
    /\ IsRegularFile(Target)
    /\ Len(results[4].value) = 2

---------------------------------------------------------------------------
(* C10 *)

\* C10: a directory is scanned as a directory tree whatever its name, also
\* a name with an archive suffix: no archive is opened, nothing is raised,
\* and the result holds the disc files beneath it, none twice.
C10_DirectoryFirst ==
    (ScriptRun /\ IsDirectory(Target))
    => /\ opens = 0
       /\ raised = "none"
       /\ pc \notin {"open", "list", "exit_with", "crashed"}
       /\ \A i \in DOMAIN results :
             /\ NoDuplicates(results[i].value)
             /\ Range(results[i].value) = DiscFilesBeneath(Target)

\* the directory dump.zip was scanned as a tree: its disc file was found,
\* the other file passed over
C10_Witness ==
    /\ Target = "dump.zip"
    /\ IsDirectory("dump.zip")
    /\ IsRegularFile("dump.zip/GAME.ISO")
    /\ results # <<>>
    /\ results[1].value = <<"dump.zip/game.iso">>

=============================================================================
